---- MODULE Spec2Model ----
(***************************************************************************)
(* Model of the DocumentLayerSource form component                         *)
(* (src/public/components/layer_config/documents_config/                   *)
(*  document_layer_source.tsx).                                            *)
(*                                                                         *)
(* The component is a React function component.  Its state is the hook     *)
(* state (indexPattern, hasInvalidRequestNumber, showTooltips), the ref    *)
(* memorizedForm, the configuration selectedLayerConfig owned by the       *)
(* parent (replaced through setSelectedLayerConfig), the last value handed *)
(* to setIsUpdateDisabled and the indexPatterns.get promises in flight.    *)
(*                                                                         *)
(* One Render step is one commit of the component: the closure of that     *)
(* render (indexPattern, selectedLayerConfig, selectedField,               *)
(* hasInvalidRequestNumber) is fixed, and the effects whose dependencies   *)
(* changed since the previous commit run in declaration order.  State set  *)
(* by an effect is visible to the next Render only.  Event handlers run on *)
(* the closure of the latest commit; promises resolve at any time.         *)
(*                                                                         *)
(* An optional JavaScript value (T | undefined | null) is a set with at    *)
(* most one element: {} is undefined, {x} is x.                            *)
(***************************************************************************)
EXTENDS Integers, Sequences, FiniteSets, TLC

VARIABLES
    selectedLayerConfig,      \* prop: the configuration held by the parent
    indexPattern,             \* useState: {} or {id} of the loaded index pattern
    hasInvalidRequestNumber,  \* useState<boolean>
    showTooltips,             \* useState<boolean>
    memorizedForm,            \* useRef: pattern id -> {} or {[filters, geoField]}
    isUpdateDisabled,         \* {} or {last value passed to setIsUpdateDisabled}
    pendingGets,              \* pattern id -> number of indexPatterns.get in flight
    prevDeps,                 \* {} before the first commit, else {deps of the last commit}
    configReplaced,           \* a new configuration object was set since the last commit
    needsRender,              \* a state update is waiting for a commit
    ops,                      \* number of user events so far
    lastCall,                 \* {} or {[op, given, emitted]} of the handler call not yet committed
    lastRestore,              \* {} or {record of the index-pattern-change emission of the last commit}
    lastSelected,             \* {} or {id the user chose last in the data source selector}
    opened,                   \* the configuration the component was constructed with
    passedFilters,            \* pattern id -> {} or {filters last passed while it was loaded}
    passedGeoField,           \* pattern id -> {} or {field last passed while it was loaded}
    visited,                  \* ids of patterns that were loaded in a settled commit
    changedBeforeLoad         \* onFiltersUpdated was called while no pattern was loaded

vars == <<selectedLayerConfig, indexPattern, hasInvalidRequestNumber, showTooltips,
          memorizedForm, isUpdateDisabled, pendingGets, prevDeps, configReplaced,
          needsRender, ops, lastCall, lastRestore, lastSelected, opened,
          passedFilters, passedGeoField, visited, changedBeforeLoad>>

\* ------------------------------------------------------------------ bounds

MaxOps == 3

\* ------------------------------------------------------- program constants

MinRequestNumber == 1

MaxRequestNumber == 10000

ParseIntRadix == 10

\* ---------------------------------------------------------------- helpers

The(s) == CHOOSE x \in s : TRUE

\* ---------------------------------------------- the host's index patterns

PatternIds == {"A", "B"}

IndexPatternTitle(id) == IF id = "A" THEN "title-A" ELSE "title-B"

Field(p, n, d, t) == [pattern |-> p, name |-> n, displayName |-> d, type |-> t]

IndexPatternFields(id) ==
    IF id = "A"
    THEN << Field("A", "location", "location", "geo_point"),
            Field("A", "area", "area", "geo_shape"),
            Field("A", "name", "name", "text") >>
    ELSE << Field("B", "location", "location", "geo_point"),
            Field("B", "geo.border", "g.border", "geo_shape"),
            Field("B", "name", "name", "text") >>

\* ------------------------------------------------------- derived view state

\* lines 65-68: the geo_point / geo_shape fields of the loaded pattern, in order;
\* {} (undefined) when no pattern is loaded
IsAcceptedFieldType(f) == f.type \in {"geo_point", "geo_shape"}

geoFields(ip) ==
    IF ip = {} THEN {} ELSE {SelectSeq(IndexPatternFields(The(ip)), IsAcceptedFieldType)}

\* Array.prototype.find: the first element with the given name, or undefined
FindByName(fields, n) ==
    LET hits == {i \in 1..Len(fields) : fields[i].name = n}
    IN  IF hits = {} THEN {}
        ELSE {fields[CHOOSE i \in hits : \A j \in hits : i <= j]}

\* lines 70-72
selectedField(ip, cfg) ==
    IF geoFields(ip) = {} THEN {}
    ELSE FindByName(The(geoFields(ip)), cfg.source.geoFieldName)

\* indexPattern?.getFieldByName(name), line 322
getFieldByName(ip, n) ==
    IF ip = {} THEN {} ELSE FindByName(IndexPatternFields(The(ip)), n)

\* lines 129-137: the labels of the combo box options
FieldLabel(f) == IF f.displayName # "" THEN f.displayName ELSE f.name

formatFieldsToComboBox(fields) ==
    IF fields = {} THEN <<>>
    ELSE [i \in 1..Len(The(fields)) |-> FieldLabel(The(fields)[i])]

\* ------------------------------------------------------------------ numbers

\* A JavaScript number is either NaN or an integer of this model.
NaN == [nan |-> TRUE, n |-> 0]

Num(k) == [nan |-> FALSE, n |-> k]

\* the relational operators: every comparison with NaN is false
NumLess(x, k) == ~x.nan /\ x.n < k

NumGreater(x, k) == ~x.nan /\ x.n > k

Digits == {"0", "1", "2", "3", "4", "5", "6", "7", "8", "9"}

DigitValue(c) ==
    CASE c = "0" -> 0 [] c = "1" -> 1 [] c = "2" -> 2 [] c = "3" -> 3 [] c = "4" -> 4
      [] c = "5" -> 5 [] c = "6" -> 6 [] c = "7" -> 7 [] c = "8" -> 8 [] c = "9" -> 9

RECURSIVE SkipWhiteSpace(_)
SkipWhiteSpace(s) ==
    IF s # <<>> /\ Head(s) = " " THEN SkipWhiteSpace(Tail(s)) ELSE s

\* the value of the longest prefix of digits of s, given the value acc and
\* the count seen of the digits before it; <<value, count>>
RECURSIVE ParseDigits(_, _, _)
ParseDigits(s, acc, seen) ==
    IF s # <<>> /\ Head(s) \in Digits
    THEN ParseDigits(Tail(s), acc * ParseIntRadix + DigitValue(Head(s)), seen + 1)
    ELSE <<acc, seen>>

\* parseInt(value, 10), line 175: value is a sequence of characters
ParseInt(value) ==
    LET s     == SkipWhiteSpace(value)
        neg   == s # <<>> /\ Head(s) = "-"
        body  == IF s # <<>> /\ Head(s) \in {"-", "+"} THEN Tail(s) ELSE s
        r     == ParseDigits(body, 0, 0)
    IN  IF r[2] = 0 THEN NaN ELSE Num(IF neg THEN 0 - r[1] ELSE r[1])

\* the range check with the upper comparison written >= instead of >
InvalidRequestNumberOffByOne(cfg) ==
    \/ NumLess(cfg.source.documentRequestNumber, MinRequestNumber)
    \/ NumGreater(cfg.source.documentRequestNumber, MaxRequestNumber - 1)

\* lines 246-249: the argument of setHasInvalidRequestNumber
InvalidRequestNumber(cfg) ==
    \/ NumLess(cfg.source.documentRequestNumber, MinRequestNumber)
    \/ NumGreater(cfg.source.documentRequestNumber, MaxRequestNumber)

\* the disable condition without its !selectedField disjunct
disableUpdateIgnoringField(ip, sel, invalid) == ip = {} \/ invalid

\* line 120: the argument of setIsUpdateDisabled
disableUpdate(ip, sel, invalid) == ip = {} \/ sel = {} \/ invalid

\* ------------------------------------------------- configurations and inputs

Source(ip, ref, gname, gtype, num, filters, tips, show, bbox) ==
    [indexPatternId |-> ip, indexPatternRefName |-> ref, geoFieldName |-> gname,
     geoFieldType |-> gtype, documentRequestNumber |-> num, filters |-> filters,
     tooltipFields |-> tips, showTooltips |-> show, useGeoBoundingBoxFilter |-> bbox]

\* the configurations a layer is opened with: a new layer without data source,
\* and saved layers over either index pattern
InitialConfigs ==
    { [id |-> "layer-1",
       source |-> Source("", "", "", "geo_point", Num(1000), <<>>, <<>>, FALSE, FALSE)],
      [id |-> "layer-1",
       source |-> Source("A", "title-A", "location", "geo_point", Num(1000),
                         <<"f1">>, <<"name">>, TRUE, TRUE)],
      [id |-> "layer-1",
       source |-> Source("B", "title-B", "geo.border", "geo_shape", Num(10000),
                         <<>>, <<>>, TRUE, FALSE)] }

\* e.target.value of the number field, as characters
InputValues ==
    { <<>>, <<"0">>, <<"1">>, <<"-", "5">>, <<"1", ".", "5">>,
      <<"1", "0", "0", "0", "0">>, <<"1", "0", "0", "0", "1">> }

FilterLists == { <<>>, <<"f1">>, <<"f1", "f2">> }

TooltipOptions == { <<>>, <<[label |-> "name"]>> }

\* ------------------------------------------------- what the handlers compute

\* lines 176-177
documentRequestNumberConfig(cfg, value) ==
    [cfg EXCEPT !.source.documentRequestNumber = ParseInt(value)]

\* lines 181-186
tooltipSelectionConfig(cfg, options) ==
    [cfg EXCEPT !.source.tooltipFields = [i \in 1..Len(options) |-> options[i].label]]

\* lines 191-194
filtersConfig(cfg, filters) == [cfg EXCEPT !.source.filters = filters]

\* unchecking the box also drops the tooltip fields
showTooltipsConfigClearing(cfg, checked) ==
    [cfg EXCEPT !.source.showTooltips = checked,
                !.source.tooltipFields = IF checked THEN @ ELSE <<>>]

\* lines 254-255
showTooltipsConfig(cfg, checked) == [cfg EXCEPT !.source.showTooltips = checked]

\* lines 259-260
geoBoundingBoxConfig(cfg, checked) ==
    [cfg EXCEPT !.source.useGeoBoundingBoxFilter = checked]

\* lines 92-100: the configurations onGeoFieldChange emits, none for null
geoFieldConfig(cfg, field) ==
    IF field = {} THEN {}
    ELSE {[cfg EXCEPT !.source.geoFieldName = The(field).displayName,
                      !.source.geoFieldType = The(field).type]}

\* { ...memorizedForm.current[id], geoField: field }, lines 104-107
MemorizeGeoField(memo, ip, field) ==
    IF ip = {} \/ field = {} THEN memo
    ELSE [memo EXCEPT ![The(ip)] =
            {[filters  |-> IF @ = {} THEN {} ELSE The(@).filters,
              geoField |-> field]}]

\* { ...memorizedForm.current[id], filters }, lines 197-202
MemorizeFilters(memo, ip, filters) ==
    IF ip = {} THEN memo
    ELSE [memo EXCEPT ![The(ip)] =
            {[filters  |-> {filters},
              geoField |-> IF @ = {} THEN {} ELSE The(@).geoField]}]

\* ---------------------------------------------------- what the effects compute

\* lines 75-88: memorize the selection when a configuration is opened
MemorizeOnOpen(memo, ip, cfg, sel) ==
    IF ip # {} /\ The(ip) = cfg.source.indexPatternId /\ memo[The(ip)] = {}
    THEN [memo EXCEPT ![The(ip)] = {[filters |-> {cfg.source.filters}, geoField |-> sel]}]
    ELSE memo

\* memorizedForm.current[id]?.filters ?? [], line 227
RestoredFilters(memo, id) ==
    IF memo[id] # {} /\ The(memo[id]).filters # {} THEN The(The(memo[id]).filters) ELSE <<>>

\* memorizedForm.current[id]?.geoField, lines 231-233
RestoredGeoField(memo, id) == IF memo[id] = {} THEN {} ELSE The(memo[id]).geoField

\* the effect without the assignment of source.indexPatternRefName
indexPatternChangeConfigStaleRefName(ip, cfg, memo) ==
    IF ip # {} /\ The(ip) # cfg.source.indexPatternId
    THEN LET id  == The(ip)
             geo == RestoredGeoField(memo, id)
             s1  == [cfg.source EXCEPT !.indexPatternId = id,
                                       !.filters = RestoredFilters(memo, id)]
             s2  == IF geo # {}
                    THEN [s1 EXCEPT !.geoFieldName = The(geo).displayName,
                                    !.geoFieldType = The(geo).type]
                    ELSE s1
         IN  {[cfg EXCEPT !.source = s2]}
    ELSE {}

\* lines 221-242: the configurations the index-pattern-change effect emits
indexPatternChangeConfig(ip, cfg, memo) ==
    IF ip # {} /\ The(ip) # cfg.source.indexPatternId
    THEN LET id  == The(ip)
             geo == RestoredGeoField(memo, id)
             s1  == [cfg.source EXCEPT !.indexPatternId = id,
                                       !.indexPatternRefName = IndexPatternTitle(id),
                                       !.filters = RestoredFilters(memo, id)]
             s2  == IF geo # {}
                    THEN [s1 EXCEPT !.geoFieldName = The(geo).displayName,
                                    !.geoFieldType = The(geo).type]
                    ELSE s1
         IN  {[cfg EXCEPT !.source = s2]}
    ELSE {}

\* lines 208-216: the lookup selectIndexPattern starts
StartGet(pending, id) ==
    IF id # "" THEN [pending EXCEPT ![id] = @ + 1] ELSE pending

\* --------------------------------------------------------------- the state

Init ==
    /\ selectedLayerConfig \in InitialConfigs
    /\ opened = selectedLayerConfig
    /\ indexPattern = {}
    /\ hasInvalidRequestNumber = FALSE
    /\ showTooltips = selectedLayerConfig.source.showTooltips
    /\ memorizedForm = [id \in PatternIds |-> {}]
    /\ isUpdateDisabled = {}
    /\ pendingGets = [id \in PatternIds |-> 0]
    /\ prevDeps = {}
    /\ configReplaced = FALSE
    /\ needsRender = TRUE
    /\ ops = 0
    /\ lastCall = {}
    /\ lastRestore = {}
    /\ lastSelected = {}
    /\ passedFilters = [id \in PatternIds |-> {}]
    /\ passedGeoField = [id \in PatternIds |-> {}]
    /\ visited = {}
    /\ changedBeforeLoad = FALSE

\* the component is mounted and every state update has been committed
Settled == prevDeps # {} /\ ~needsRender

\* the user can act on what the latest commit shows
Interactive == Settled /\ ops < MaxOps

\* what the claim about restoring a selection expects for pattern id
ExpectedFilters(id) ==
    IF passedFilters[id] # {} THEN passedFilters[id]
    ELSE IF opened.source.indexPatternId = id /\ ~changedBeforeLoad
         THEN {opened.source.filters}
         ELSE {}

ExpectedGeoField(id) ==
    IF passedGeoField[id] # {} THEN passedGeoField[id]
    ELSE IF opened.source.indexPatternId = id THEN selectedField({id}, opened)
         ELSE {}

History == <<opened, passedFilters, passedGeoField, visited, changedBeforeLoad>>

\* ------------------------------------------------------------------ commit

\* One commit: the effects whose dependencies changed run in declaration order
\* on the closure of this render.
Render ==
    /\ needsRender
    /\ LET ip      == indexPattern
           cfg     == selectedLayerConfig
           sel     == selectedField(ip, cfg)
           inv     == hasInvalidRequestNumber
           first   == prevDeps = {}
           prev    == The(prevDeps)
           ipCh    == first \/ prev.indexPattern # ip
           selCh   == first \/ prev.selectedField # sel
           invCh   == first \/ prev.hasInvalidRequestNumber # inv
           idCh    == first \/ prev.indexPatternId # cfg.source.indexPatternId
           numCh   == first \/ prev.documentRequestNumber # cfg.source.documentRequestNumber
           cfgCh   == first \/ configReplaced
           \* lines 75-88
           memo1   == IF ipCh \/ cfgCh \/ selCh
                      THEN MemorizeOnOpen(memorizedForm, ip, cfg, sel)
                      ELSE memorizedForm
           \* lines 219-243
           emitted == IF ipCh THEN indexPatternChangeConfig(ip, cfg, memo1) ELSE {}
           \* lines 245-250
           inv1    == IF numCh THEN InvalidRequestNumber(cfg) ELSE inv
       IN  /\ memorizedForm' = memo1
           \* lines 119-122
           /\ isUpdateDisabled' =
                 IF ipCh \/ selCh \/ invCh THEN {disableUpdate(ip, sel, inv)}
                 ELSE isUpdateDisabled
           \* lines 207-217
           /\ pendingGets' =
                 IF idCh THEN StartGet(pendingGets, cfg.source.indexPatternId)
                 ELSE pendingGets
           /\ selectedLayerConfig' = IF emitted = {} THEN cfg ELSE The(emitted)
           /\ hasInvalidRequestNumber' = inv1
           /\ configReplaced' = (emitted # {})
           /\ needsRender' = (emitted # {} \/ inv1 # inv)
           /\ prevDeps' = {[indexPattern |-> ip, selectedField |-> sel,
                            hasInvalidRequestNumber |-> inv,
                            indexPatternId |-> cfg.source.indexPatternId,
                            documentRequestNumber |-> cfg.source.documentRequestNumber]}
           /\ lastRestore' =
                 IF emitted = {} THEN {}
                 ELSE {[to |-> The(ip), given |-> cfg, emitted |-> The(emitted),
                        from |-> IF first THEN {} ELSE prev.indexPattern,
                        memorized |-> memo1[The(ip)],
                        wasVisited |-> The(ip) \in visited,
                        expFilters |-> ExpectedFilters(The(ip)),
                        expGeoField |-> ExpectedGeoField(The(ip))]}
           /\ visited' = IF ip # {} /\ The(ip) = cfg.source.indexPatternId
                         THEN visited \cup ip ELSE visited
    /\ lastCall' = {}
    /\ UNCHANGED <<indexPattern, showTooltips, ops, lastSelected, opened,
                   passedFilters, passedGeoField, changedBeforeLoad>>

\* ----------------------------------------------------------- asynchronous

\* an indexPatterns.get(id) resolves and its continuation calls setIndexPattern
\* (lines 210-213 and 300-301)
ResolveGet(id) ==
    /\ pendingGets[id] > 0
    /\ pendingGets' = [pendingGets EXCEPT ![id] = @ - 1]
    /\ indexPattern' = {id}
    /\ needsRender' = (needsRender \/ indexPattern # {id})
    /\ UNCHANGED <<selectedLayerConfig, hasInvalidRequestNumber, showTooltips,
                   memorizedForm, isUpdateDisabled, prevDeps, configReplaced, ops,
                   lastCall, lastRestore, lastSelected, History>>

\* ------------------------------------------------------------- user events

\* the state every handler sets when it calls setSelectedLayerConfig(cfg)
Emit(op, cfg) ==
    /\ selectedLayerConfig' = cfg
    /\ configReplaced' = TRUE
    /\ needsRender' = TRUE
    /\ lastCall' = {[op |-> op, given |-> selectedLayerConfig, emitted |-> {cfg}]}
    /\ ops' = ops + 1

\* IndexPatternSelect onChange, lines 299-302, up to its await
SelectDataSource(id) ==
    /\ Interactive
    /\ pendingGets' = [pendingGets EXCEPT ![id] = @ + 1]
    /\ lastSelected' = {id}
    /\ ops' = ops + 1
    /\ UNCHANGED <<selectedLayerConfig, indexPattern, hasInvalidRequestNumber,
                   showTooltips, memorizedForm, isUpdateDisabled, prevDeps,
                   configReplaced, needsRender, lastCall, lastRestore, History>>

\* the geo field combo box onChange, lines 321-324, with onGeoFieldChange
SelectGeoField(label) ==
    /\ Interactive
    /\ LET field == getFieldByName(indexPattern, label)
           out   == geoFieldConfig(selectedLayerConfig, field)
       IN  /\ IF out = {}
              THEN /\ lastCall' = {[op |-> "onGeoFieldChange",
                                    given |-> selectedLayerConfig, emitted |-> {}]}
                   /\ ops' = ops + 1
                   /\ UNCHANGED <<selectedLayerConfig, configReplaced, needsRender>>
              ELSE Emit("onGeoFieldChange", The(out))
           /\ memorizedForm' = MemorizeGeoField(memorizedForm, indexPattern, field)
           /\ passedGeoField' = IF field = {} \/ indexPattern = {} THEN passedGeoField
                                ELSE [passedGeoField EXCEPT ![The(indexPattern)] = field]
    /\ UNCHANGED <<indexPattern, hasInvalidRequestNumber, showTooltips, isUpdateDisabled,
                   pendingGets, prevDeps, lastRestore, lastSelected, opened,
                   passedFilters, visited, changedBeforeLoad>>

ChangeDocumentRequestNumber(value) ==
    /\ Interactive
    /\ Emit("onDocumentRequestNumberChange",
            documentRequestNumberConfig(selectedLayerConfig, value))
    /\ UNCHANGED <<indexPattern, hasInvalidRequestNumber, showTooltips, memorizedForm,
                   isUpdateDisabled, pendingGets, prevDeps, lastRestore, lastSelected,
                   History>>

ChangeTooltipSelection(options) ==
    /\ Interactive
    /\ Emit("onTooltipSelectionChange", tooltipSelectionConfig(selectedLayerConfig, options))
    /\ UNCHANGED <<indexPattern, hasInvalidRequestNumber, showTooltips, memorizedForm,
                   isUpdateDisabled, pendingGets, prevDeps, lastRestore, lastSelected,
                   History>>

UpdateFilters(filters) ==
    /\ Interactive
    /\ Emit("onFiltersUpdated", filtersConfig(selectedLayerConfig, filters))
    /\ memorizedForm' = MemorizeFilters(memorizedForm, indexPattern, filters)
    /\ passedFilters' = IF indexPattern = {} THEN passedFilters
                        ELSE [passedFilters EXCEPT ![The(indexPattern)] = {filters}]
    /\ changedBeforeLoad' = (changedBeforeLoad \/ indexPattern = {})
    /\ UNCHANGED <<indexPattern, hasInvalidRequestNumber, showTooltips, isUpdateDisabled,
                   pendingGets, prevDeps, lastRestore, lastSelected, opened,
                   passedGeoField, visited>>

\* the checkbox shows the state showTooltips and reports its negation
ToggleShowTooltips ==
    /\ Interactive
    /\ showTooltips' = ~showTooltips
    /\ Emit("onShowTooltipsChange", showTooltipsConfig(selectedLayerConfig, ~showTooltips))
    /\ UNCHANGED <<indexPattern, hasInvalidRequestNumber, memorizedForm,
                   isUpdateDisabled, pendingGets, prevDeps, lastRestore, lastSelected,
                   History>>

\* lines 375-382: the checkbox is disabled unless the geo field is a geo_point
BoundingBoxEnabled(cfg) == cfg.source.geoFieldType = "geo_point"

ToggleGeoBoundingBox ==
    /\ Interactive
    /\ BoundingBoxEnabled(selectedLayerConfig)
    /\ Emit("onToggleGeoBoundingBox",
            geoBoundingBoxConfig(selectedLayerConfig,
                                 ~selectedLayerConfig.source.useGeoBoundingBoxFilter))
    /\ UNCHANGED <<indexPattern, hasInvalidRequestNumber, showTooltips, memorizedForm,
                   isUpdateDisabled, pendingGets, prevDeps, lastRestore, lastSelected,
                   History>>

GeoFieldLabels ==
    {formatFieldsToComboBox(geoFields(indexPattern))[i] :
        i \in 1..Len(formatFieldsToComboBox(geoFields(indexPattern)))}

Next ==
    \/ Render
    \/ \E id \in PatternIds : ResolveGet(id)
    \/ \E id \in PatternIds : SelectDataSource(id)
    \/ \E label \in GeoFieldLabels : SelectGeoField(label)
    \/ \E value \in InputValues : ChangeDocumentRequestNumber(value)
    \/ \E options \in TooltipOptions : ChangeTooltipSelection(options)
    \/ \E filters \in FilterLists : UpdateFilters(filters)
    \/ ToggleShowTooltips
    \/ ToggleGeoBoundingBox

Spec == Init /\ [][Next]_vars

\* lookups resolve and pending commits happen
FairSpec == Spec /\ WF_vars(Render) /\ WF_vars(\E id \in PatternIds : ResolveGet(id))

\* ================================================================== claims

RequestNumber == selectedLayerConfig.source.documentRequestNumber

\* the field the geo field combo box shows as selected, from the fixture alone
GeoFieldNameIsLoaded ==
    /\ indexPattern # {}
    /\ \E i \in 1..Len(IndexPatternFields(The(indexPattern))) :
          LET f == IndexPatternFields(The(indexPattern))[i]
          IN  f.type \in {"geo_point", "geo_shape"}
              /\ f.name = selectedLayerConfig.source.geoFieldName

\* C1: once the effects have run to completion, an integer request number
\* below 1 or above 10000 has hasInvalidRequestNumber true and the last value
\* passed to setIsUpdateDisabled true; an integer in 1..10000 has
\* hasInvalidRequestNumber false.
C1_RequestNumberRange ==
    (Settled /\ ~RequestNumber.nan) =>
        /\ (RequestNumber.n < 1 \/ RequestNumber.n > 10000)
              => (hasInvalidRequestNumber /\ isUpdateDisabled = {TRUE})
        /\ (RequestNumber.n >= 1 /\ RequestNumber.n <= 10000)
              => ~hasInvalidRequestNumber

\* the user typed 10001 while a pattern and a geo field were selected
C1_Witness ==
    /\ Settled /\ ops > 0
    /\ RequestNumber = Num(10001)
    /\ GeoFieldNameIsLoaded
    /\ hasInvalidRequestNumber
    /\ isUpdateDisabled = {TRUE}

\* C2: when the number field is emptied or holds text that does not parse,
\* the not-a-number request number is flagged invalid and setIsUpdateDisabled
\* is called with true.
C2_NotANumberIsInvalid ==
    (Settled /\ RequestNumber.nan) =>
        (hasInvalidRequestNumber /\ isUpdateDisabled = {TRUE})

\* C3: once the effects have run to completion, the last value passed to
\* setIsUpdateDisabled is true exactly when no index pattern is loaded, or
\* geoFieldName is not the name of a geo_point or geo_shape field of the loaded
\* pattern, or hasInvalidRequestNumber is true; otherwise it is false.
C3_UpdateDisabledExactly ==
    Settled =>
        isUpdateDisabled =
            {indexPattern = {} \/ ~GeoFieldNameIsLoaded \/ hasInvalidRequestNumber}

\* the apply action was enabled after the user chose a data source and a field
C3_Witness ==
    /\ Settled /\ ops > 1
    /\ opened.source.indexPatternId = ""
    /\ GeoFieldNameIsLoaded
    /\ isUpdateDisabled = {FALSE}

\* C7: the index-pattern-change effect emits a configuration whose
\* indexPatternId is the loaded pattern's id and whose indexPatternRefName is
\* its title; and whenever a pattern is loaded, no lookup is pending and all
\* effects have run, the loaded pattern's id equals source.indexPatternId.
C7_ConfigFollowsIndexPattern ==
    /\ lastRestore # {} =>
          /\ The(lastRestore).to # The(lastRestore).given.source.indexPatternId
          /\ The(lastRestore).emitted.source.indexPatternId = The(lastRestore).to
          /\ The(lastRestore).emitted.source.indexPatternRefName
                = IndexPatternTitle(The(lastRestore).to)
    /\ (Settled /\ indexPattern # {} /\ \A id \in PatternIds : pendingGets[id] = 0)
          => selectedLayerConfig.source.indexPatternId = The(indexPattern)

\* the user moved a saved layer from pattern A to pattern B
C7_Witness ==
    /\ Settled /\ indexPattern = {"B"}
    /\ \A id \in PatternIds : pendingGets[id] = 0
    /\ opened.source.indexPatternId = "A"
    /\ selectedLayerConfig.source.indexPatternId = "B"
    /\ selectedLayerConfig.source.indexPatternRefName = "title-B"

\* the source fields of a and b agree outside the set changed, and so do the ids
SameExcept(a, b, changed) ==
    /\ a.id = b.id
    /\ DOMAIN a.source = DOMAIN b.source
    /\ \A k \in DOMAIN a.source \ changed : a.source[k] = b.source[k]

FieldsOfOperation(op) ==
    CASE op = "onDocumentRequestNumberChange" -> {"documentRequestNumber"}
      [] op = "onTooltipSelectionChange"      -> {"tooltipFields"}
      [] op = "onShowTooltipsChange"          -> {"showTooltips"}
      [] op = "onToggleGeoBoundingBox"        -> {"useGeoBoundingBoxFilter"}
      [] op = "onFiltersUpdated"              -> {"filters"}
      [] op = "onGeoFieldChange"              -> {"geoFieldName", "geoFieldType"}

\* C4: the configuration a handler emits differs from the configuration it
\* was given only in the fields of the operation; the id and every other
\* source field are unchanged, and onGeoFieldChange(null) emits nothing.
C4_HandlersChangeOnlyTheirFields ==
    lastCall # {} =>
        LET c == The(lastCall)
        IN  IF c.emitted = {}
            THEN /\ c.op = "onGeoFieldChange"
                 /\ selectedLayerConfig = c.given
                 /\ ~configReplaced
            ELSE /\ selectedLayerConfig = The(c.emitted)
                 /\ configReplaced
                 /\ SameExcept(The(c.emitted), c.given, FieldsOfOperation(c.op))

\* a geo field of another type was chosen while the bounding box filter was on
C4_Witness ==
    /\ lastCall # {}
    /\ The(lastCall).op = "onGeoFieldChange"
    /\ The(lastCall).emitted # {}
    /\ The(The(lastCall).emitted).source.geoFieldType
          # The(lastCall).given.source.geoFieldType
    /\ The(lastCall).given.source.useGeoBoundingBoxFilter

\* C5: when the user selects again an index pattern that was loaded before,
\* the emitted configuration carries that pattern's id, the filters last
\* passed to onFiltersUpdated and the geo field last passed to onGeoFieldChange
\* while it was loaded (or, when the user changed neither, those of the
\* configuration opened with it).
C5_SelectionRestored ==
    (lastRestore # {} /\ The(lastRestore).wasVisited
       /\ lastSelected = {The(lastRestore).to}) =>
        LET r == The(lastRestore)
        IN  /\ r.emitted.source.indexPatternId = r.to
            /\ r.expFilters # {} => r.emitted.source.filters = The(r.expFilters)
            /\ r.expGeoField # {} =>
                  /\ r.emitted.source.geoFieldName = The(r.expGeoField).displayName
                  /\ r.emitted.source.geoFieldType = The(r.expGeoField).type

\* back on a pattern whose filters the user had changed
C5_Witness ==
    /\ lastRestore # {}
    /\ The(lastRestore).wasVisited
    /\ lastSelected = {The(lastRestore).to}
    /\ The(lastRestore).expFilters # {}
    /\ The(lastRestore).expGeoField # {}
    /\ The(lastRestore).expFilters # {opened.source.filters}
    /\ The(lastRestore).given.source.filters # The(The(lastRestore).expFilters)
    /\ The(lastRestore).emitted.source.filters = The(The(lastRestore).expFilters)

\* C6: when the loaded pattern changes from one with a geo field chosen to one
\* for which nothing is memorized, the emitted configuration has filters = []
\* and no longer carries the geo field chosen for the previous pattern.
C6_SelectionReset ==
    (lastRestore # {} /\ The(lastRestore).memorized = {}
       /\ selectedField(The(lastRestore).from, The(lastRestore).given) # {}) =>
        /\ The(lastRestore).emitted.source.filters = <<>>
        /\ The(lastRestore).emitted.source.geoFieldName
              # The(lastRestore).given.source.geoFieldName

\* C8: after the user's last data source selection the component eventually
\* stays with the loaded pattern and source.indexPatternId both the pattern
\* selected last.
C8_LastSelectionWins ==
    <>[](lastSelected # {} =>
            /\ indexPattern = lastSelected
            /\ selectedLayerConfig.source.indexPatternId = The(lastSelected))

\* C9: useGeoBoundingBoxFilter is true only while geoFieldType is geo_point.
C9_BoundingBoxOnlyForGeoPoint ==
    selectedLayerConfig.source.useGeoBoundingBoxFilter
        => selectedLayerConfig.source.geoFieldType = "geo_point"

====
